---- MODULE Spec2Model ----
(***************************************************************************)
(* Model of customer_screening_tool/app.py: the CustomerRestrictedPartyTool *)
(* entity store (customers, restricted parties, matches and their three     *)
(* JSON files), the screening passes and the delete routes.                 *)
(*                                                                          *)
(* Strings that the code inspects character by character (names, and the    *)
(* other stripped text fields) are sequences of one-character strings.      *)
(* A dict key that is missing is the empty tuple Absent; a present value v  *)
(* of an optional key is <<v>>.                                             *)
(*                                                                          *)
(* Python stores dicts by reference.  A match built by find_exact_matches / *)
(* find_similar_matches holds the very dict that is an element of           *)
(* self.customers / self.restricted_parties.  A match record of the model   *)
(* therefore carries, next to the current content of that dict, the         *)
(* position cref / pref of the dict in its list, or 0 when the dict is not  *)
(* an element of the list (the entity was deleted, or the match was loaded  *)
(* from matches.json).  A dict that is not in the list can no longer be     *)
(* written by any operation.                                                *)
(***************************************************************************)
EXTENDS Integers, Sequences, FiniteSets, TLC

\* ---------------------------------------------------------------- bounds
MaxCustomers == 2
MaxParties == 2
\* requests served in one explored run
MaxOps == 5

\* ------------------------------------------------------------ characters
Absent == <<>>

Some(v) == <<v>>

IsSpace(c) == c \in {" ", "\t", "\n"}

\* str.lower() on the characters of the model's alphabet
LowerChar(c) ==
    CASE c = "A" -> "a"
      [] c = "B" -> "b"
      [] c = "C" -> "c"
      [] OTHER -> c

Lower(s) == [i \in 1..Len(s) |-> LowerChar(s[i])]

RECURSIVE LStrip(_)
LStrip(s) == IF s # <<>> /\ IsSpace(Head(s)) THEN LStrip(Tail(s)) ELSE s

RECURSIVE RStrip(_)
RStrip(s) ==
    IF s # <<>> /\ IsSpace(s[Len(s)]) THEN RStrip(SubSeq(s, 1, Len(s) - 1)) ELSE s

\* str.strip()
Strip(s) == RStrip(LStrip(s))

\* ------------------------------------------------------- similarity score
\* Length of the common run a[i..] = b[j..] inside a[..ahi), b[..bhi)
\* (0-based offsets, as in difflib).
RECURSIVE RunLen(_, _, _, _, _, _)
RunLen(a, b, i, j, ahi, bhi) ==
    IF i < ahi /\ j < bhi /\ a[i + 1] = b[j + 1]
    THEN 1 + RunLen(a, b, i + 1, j + 1, ahi, bhi)
    ELSE 0

SetMax(S) == CHOOSE x \in S : \A y \in S : y <= x

SetMin(S) == CHOOSE x \in S : \A y \in S : x <= y

\* SequenceMatcher.find_longest_match without junk: the longest block, and
\* among the longest the one starting earliest in a, then earliest in b.
FindLongestMatch(a, b, alo, ahi, blo, bhi) ==
    LET sizes == {RunLen(a, b, i, j, ahi, bhi) : i \in alo..(ahi - 1), j \in blo..(bhi - 1)}
        best == IF sizes = {} THEN 0 ELSE SetMax(sizes)
    IN  IF best = 0
        THEN [i |-> alo, j |-> blo, size |-> 0]
        ELSE LET bi == SetMin({i \in alo..(ahi - 1) :
                          \E j \in blo..(bhi - 1) : RunLen(a, b, i, j, ahi, bhi) = best})
                 bj == SetMin({j \in blo..(bhi - 1) : RunLen(a, b, bi, j, ahi, bhi) = best})
             IN  [i |-> bi, j |-> bj, size |-> best]

\* SequenceMatcher.get_matching_blocks: total size of the blocks found by
\* recursing to the left and to the right of the longest match.
RECURSIVE MatchedSize(_, _, _, _, _, _)
MatchedSize(a, b, alo, ahi, blo, bhi) ==
    LET m == FindLongestMatch(a, b, alo, ahi, blo, bhi)
    IN  IF m.size = 0
        THEN 0
        ELSE m.size
             + (IF alo < m.i /\ blo < m.j
                THEN MatchedSize(a, b, alo, m.i, blo, m.j) ELSE 0)
             + (IF m.i + m.size < ahi /\ m.j + m.size < bhi
                THEN MatchedSize(a, b, m.i + m.size, ahi, m.j + m.size, bhi) ELSE 0)

RECURSIVE GCD(_, _)
GCD(x, y) == IF y = 0 THEN x ELSE GCD(y, x % y)

\* A score is the fraction num/den in lowest terms, so that equal scores are
\* equal values as equal floats are.
Frac(n, d) == [num |-> n \div GCD(n, d), den |-> d \div GCD(n, d)]

One == Frac(1, 1)

\* SequenceMatcher.ratio(): 2.0 * matches / length, and 1.0 when length is 0
Ratio(a, b) ==
    LET length == Len(a) + Len(b)
    IN  IF length = 0
        THEN One
        ELSE Frac(2 * MatchedSize(a, b, 0, Len(a), 0, Len(b)), length)

\* calculate_similarity: both names lowercased, nothing stripped
calculate_similarity(name1, name2) == Ratio(Lower(name1), Lower(name2))

\* The default threshold 0.3 of find_similar_matches as the fraction 3/10.
\* (The double 0.3 and the double 2.0*m/n differ from the fractions by far
\* less than the distance 1/(10*n) between a score and 3/10, and 6.0/20.0 is
\* the same double as 0.3, so the comparisons agree with exact arithmetic.)
ThresholdNum == 3
ThresholdDen == 10

AtLeast(s, n, d) == s.num * d >= n * s.den

LessThanOne(s) == s.num < s.den

\* the boundary mistaken for exclusive
InSimilarRangeExclusive(s) ==
    s.num * ThresholdDen > ThresholdNum * s.den /\ LessThanOne(s)

\* similarity >= threshold and similarity < 1.0
InSimilarRange(s) == AtLeast(s, ThresholdNum, ThresholdDen) /\ LessThanOne(s)

\* the strip left out of the comparison key
NormalizeNameNoStrip(name) == Lower(name)

\* name.lower().strip(), the key compared by find_exact_matches
NormalizeName(name) == Strip(Lower(name))

\* ------------------------------------------------------------ test names
nAB == <<"a", "b">>
nSpAB == <<" ", "A", "B">>
nL1 == <<"b", "c", "d", "e", "e", "e", "e", "e", "e", "e">>
nL2 == <<"b", "c", "d", "f", "f", "f", "f", "f", "f", "f">>

\* inputs of the operations
CustomerNameInputs == {nAB, nL1}
PartyNameInputs == {nSpAB, nL2}
CommentInputs == {<<"x">>}
Empty == <<>>

\* datetime.now().isoformat(): the value of the time stamp is not modelled,
\* every reading of the clock gives this one value
Timestamp == "now"
None == "None"
HoldTypeInputs == {"Hold"}
DtypeInputs == {None, "D"}

\* ------------------------------------------------------------------ state
VARIABLES
    customers,                \* self.customers
    restricted_parties,       \* self.restricted_parties
    matches,                  \* self.matches: [rec, cref, pref]
    customers_file,           \* content of customers.json
    restricted_parties_file,  \* content of restricted_parties.json
    matches_file,             \* content of matches.json
    requests,                 \* the requests being served by the two threads
    last,                     \* the last operation and what it returned
    issued,                   \* history: the ids handed out by the add operations
    hist,                     \* history: screening runs and the operations since
    ops                       \* number of operations performed so far

vars == <<customers, restricted_parties, matches, customers_file,
          restricted_parties_file, matches_file, requests, last, issued, hist, ops>>

\* dict.update(other): the keys of other are added or overwritten
DictUpdate(d, other) == other @@ d

\* an id taken above the largest id of the list
NextIdAboveMax(list) ==
    IF list = <<>> THEN 1 ELSE SetMax({list[i]["id"] : i \in 1..Len(list)}) + 1

\* len(self.customers) + 1, len(self.restricted_parties) + 1
NextId(list) == Len(list) + 1

\* the dict built by add_customer
NewCustomer(id, name, address, phone, email, comments, t) ==
    [id |-> id, name |-> Strip(name), address |-> Strip(address),
     phone |-> Strip(phone), email |-> Strip(email),
     comments |-> Strip(comments), created_date |-> t]

\* the dict built by add_restricted_party
NewRestrictedParty(id, name, reason, source, comments, t) ==
    [id |-> id, name |-> Strip(name), reason |-> Strip(reason),
     source |-> Strip(source), comments |-> Strip(comments), created_date |-> t]

\* a lookup by id that falls back to the last element
IndexOfIdOrLast(list, id) ==
    IF \E i \in 1..Len(list) : list[i]["id"] = id
    THEN SetMin({i \in 1..Len(list) : list[i]["id"] = id})
    ELSE Len(list)

\* next(... if c["id"] == id, None): position of the first element with that
\* id, 0 for None
IndexOfId(list, id) ==
    IF \E i \in 1..Len(list) : list[i]["id"] = id
    THEN SetMin({i \in 1..Len(list) : list[i]["id"] = id})
    ELSE 0

\* list.pop(index)
Pop(list, idx) == [k \in 1..(Len(list) - 1) |-> IF k < idx THEN list[k] ELSE list[k + 1]]

\* the patch replacing the record instead of being merged into it
ReplaceRecord(rec, data, t) == ("modified_date" :> t) @@ data @@ [id |-> rec["id"]]

\* customer.update(data); customer["modified_date"] = now
UpdatedRecord(rec, data, t) == ("modified_date" :> t) @@ DictUpdate(rec, data)

\* the file written before the last record is in the list
MatchRecsButLast(ms) == [k \in 1..(Len(ms) - 1) |-> ms[k].rec]

\* json.dump(self.matches): the dicts, without the identity of what they embed
MatchRecs(ms) == [k \in 1..Len(ms) |-> ms[k].rec]

\* size bytes that json.load rejects
Garbage(size) == <<[unparsable |-> TRUE, size |-> size]>>

IsGarbage(content) == content # <<>> /\ "unparsable" \in DOMAIN content[1]

\* the content of a file that open(filename, 'w') has just emptied
Unparsable == Garbage(0)

\* load_data: the list in the file, [] when the file does not parse
load_data(content) == IF IsGarbage(content) THEN <<>> ELSE content

\* json.load of matches.json: every embedded dict is an object of its own
LoadedMatches(recs) == [k \in 1..Len(recs) |-> [rec |-> recs[k], cref |-> 0, pref |-> 0]]

\* the two loops nested the other way round
PairsPartyMajor(n, m) ==
    [k \in 1..(n * m) |-> <<((k - 1) % n) + 1, ((k - 1) \div n) + 1>>]

\* the inner loop stopping one party short
PairsButLastParty(n, m) ==
    [k \in 1..(n * (m - 1)) |-> <<((k - 1) \div (m - 1)) + 1, ((k - 1) % (m - 1)) + 1>>]

\* the pairs of the nested loops, customer-major
Pairs(n, m) == [k \in 1..(n * m) |-> <<((k - 1) \div m) + 1, ((k - 1) % m) + 1>>]

IsExactPair(pr) ==
    NormalizeName(customers[pr[1]]["name"]) = NormalizeName(restricted_parties[pr[2]]["name"])

IsSimilarPair(pr) ==
    InSimilarRange(calculate_similarity(customers[pr[1]]["name"],
                                        restricted_parties[pr[2]]["name"]))

ExactRecord(pr) ==
    [rec |-> [customer |-> customers[pr[1]],
              restricted_party |-> restricted_parties[pr[2]],
              similarity |-> One,
              match_type |-> "exact",
              hold_type |-> None,
              match_date |-> Timestamp],
     cref |-> pr[1], pref |-> pr[2]]

SimilarRecord(pr) ==
    [rec |-> [customer |-> customers[pr[1]],
              restricted_party |-> restricted_parties[pr[2]],
              similarity |-> calculate_similarity(customers[pr[1]]["name"],
                                                  restricted_parties[pr[2]]["name"]),
              match_type |-> "similar",
              match_date |-> Timestamp],
     cref |-> pr[1], pref |-> pr[2]]

find_exact_matches ==
    LET hits == SelectSeq(Pairs(Len(customers), Len(restricted_parties)), IsExactPair)
    IN  [k \in 1..Len(hits) |-> ExactRecord(hits[k])]

find_similar_matches ==
    LET hits == SelectSeq(Pairs(Len(customers), Len(restricted_parties)), IsSimilarPair)
    IN  [k \in 1..Len(hits) |-> SimilarRecord(hits[k])]

\* annotations of the old list kept by position
StoredMatchesKeepingHolds(old, all) ==
    [k \in 1..Len(all) |->
        IF k <= Len(old) /\ "hold_type" \in DOMAIN old[k].rec
        THEN [all[k] EXCEPT !.rec = ("hold_type" :> old[k].rec["hold_type"]) @@ @]
        ELSE all[k]]

\* self.matches = all_matches
StoredMatches(old, all) == all

\* the range check accepting Python's negative indexes
InRangeOrNegative(idx, n) == 0 - n <= idx /\ idx < n

\* 0 <= match_index < len(self.matches)
InRange(idx, n) == 0 <= idx /\ idx < n

\* list[index]: position (1-based) that a Python index denotes
PyPos(idx, n) == IF idx < 0 THEN n + idx + 1 ELSE idx + 1

\* the last operation, its arguments and what it returned
Result(op, args, ret) == [op |-> op, args |-> args, ret |-> ret]

NoArgs == [none |-> TRUE]

\* phase: "ran" right after run_screening, "ran_added" when exactly one
\* add_restricted_party followed it, "idle" otherwise; exact: the number of
\* exact records of the latest run; before: that number for the run before,
\* when the latest run closed a run / add_restricted_party / run sequence;
\* held: the list replaced by the latest run carried a hold type or dtype.
IdleHist == [phase |-> "idle", exact |-> 0, before |-> Absent, held |-> FALSE]

\* a match dict that carries a hold type or a dtype
Annotated(rec) ==
    \/ "hold_type" \in DOMAIN rec /\ rec["hold_type"] # None
    \/ "dtype" \in DOMAIN rec

ExactCount(ms) == Cardinality({k \in 1..Len(ms) : ms[k].rec["match_type"] = "exact"})

\* the threads of the server that serve requests step by step
Writers == {"w1", "w2"}

\* a thread with no request
Idle == [pc |-> "idle", op |-> None, name |-> Empty, id |-> 0,
         local |-> Absent, idx |-> 0, buf |-> <<>>]

\* a request served in one piece uses up one unit of the run's budget and
\* leaves the requests of the threads where they are
Served == ops < MaxOps /\ ops' = ops + 1 /\ UNCHANGED requests

Init ==
    /\ customers = <<>>
    /\ restricted_parties = <<>>
    /\ matches = <<>>
    /\ customers_file = <<>>
    /\ restricted_parties_file = <<>>
    /\ matches_file = <<>>
    /\ requests = [w \in Writers |-> Idle]
    /\ last = Result("init", NoArgs, "ok")
    /\ issued = [customers |-> {}, restricted_parties |-> {}]
    /\ hist = IdleHist
    /\ ops = 0

\* __init__ of a new process: the three lists are read back from their files
Restart ==
    /\ Served
    /\ customers' = load_data(customers_file)
    /\ restricted_parties' = load_data(restricted_parties_file)
    /\ matches' = LoadedMatches(load_data(matches_file))
    /\ last' = Result("init", NoArgs, "ok")
    /\ hist' = IdleHist
    /\ UNCHANGED <<customers_file, restricted_parties_file, matches_file, issued>>

AddCustomer(name, comments) ==
    /\ Served
    /\ Len(customers) < MaxCustomers
    /\ LET customer == NewCustomer(NextId(customers), name, Empty, Empty, Empty, comments, Timestamp)
       IN  /\ customers' = Append(customers, customer)
           /\ customers_file' = customers'
           /\ issued' = [issued EXCEPT !.customers = @ \cup {customer["id"]}]
    /\ last' = Result("add_customer", [name |-> name], "ok")
    /\ hist' = IdleHist
    /\ UNCHANGED <<restricted_parties, matches, restricted_parties_file, matches_file>>

AddRestrictedParty(name, comments) ==
    /\ Served
    /\ Len(restricted_parties) < MaxParties
    /\ LET party == NewRestrictedParty(NextId(restricted_parties), name, Empty, Empty, comments, Timestamp)
       IN  /\ restricted_parties' = Append(restricted_parties, party)
           /\ restricted_parties_file' = restricted_parties'
           /\ issued' = [issued EXCEPT !.restricted_parties = @ \cup {party["id"]}]
    /\ last' = Result("add_restricted_party", [name |-> name], "ok")
    /\ hist' = IF hist.phase = "ran"
               THEN [IdleHist EXCEPT !.phase = "ran_added", !.exact = hist.exact]
               ELSE IdleHist
    /\ UNCHANGED <<customers, matches, customers_file, matches_file>>

\* the match dicts that hold the popped element keep it; it is no longer in
\* the list, and the elements behind it move up
Unlink(ref, idx) == IF ref = idx THEN 0 ELSE IF ref > idx THEN ref - 1 ELSE ref

\* a delete that also drops the match records of the popped element
MatchesPurgedAfterPop(ms, field, idx) ==
    LET kept == SelectSeq(ms, LAMBDA m : m[field] # idx)
    IN  [k \in 1..Len(kept) |-> [kept[k] EXCEPT ![field] = Unlink(@, idx)]]

\* self.matches after a pop from the list that field ("cref" or "pref")
\* points into: the same dicts, none added or removed
MatchesAfterPop(ms, field, idx) ==
    [k \in 1..Len(ms) |-> [ms[k] EXCEPT ![field] = Unlink(@, idx)]]

DeleteCustomer(id) ==
    LET idx == IndexOfId(customers, id)
    IN  /\ Served
        /\ IF idx # 0
           THEN /\ customers' = Pop(customers, idx)
                /\ customers_file' = customers'
                /\ matches' = MatchesAfterPop(matches, "cref", idx)
                /\ last' = Result("delete_customer", [id |-> id], "ok")
           ELSE /\ UNCHANGED <<customers, customers_file, matches>>
                /\ last' = Result("delete_customer", [id |-> id], "not_found")
        /\ hist' = IdleHist
        /\ UNCHANGED <<restricted_parties, restricted_parties_file, matches_file, issued>>

DeleteRestrictedParty(id) ==
    LET idx == IndexOfId(restricted_parties, id)
    IN  /\ Served
        /\ IF idx # 0
           THEN /\ restricted_parties' = Pop(restricted_parties, idx)
                /\ restricted_parties_file' = restricted_parties'
                /\ matches' = MatchesAfterPop(matches, "pref", idx)
                /\ last' = Result("delete_restricted_party", [id |-> id], "ok")
           ELSE /\ UNCHANGED <<restricted_parties, restricted_parties_file, matches>>
                /\ last' = Result("delete_restricted_party", [id |-> id], "not_found")
        /\ hist' = IdleHist
        /\ UNCHANGED <<customers, customers_file, matches_file, issued>>

\* The dict found is updated in place, so every match that holds this dict
\* shows the new content; matches.json is not rewritten.
UpdateCustomer(id, data) ==
    LET idx == IndexOfId(customers, id)
    IN  /\ Served
        /\ IF idx # 0
           THEN LET customer == UpdatedRecord(customers[idx], data, Timestamp)
                IN  /\ customers' = [customers EXCEPT ![idx] = customer]
                    /\ customers_file' = customers'
                    /\ matches' = [k \in 1..Len(matches) |->
                                     IF matches[k].cref = idx
                                     THEN [matches[k] EXCEPT !.rec = ("customer" :> customer) @@ @]
                                     ELSE matches[k]]
                    /\ last' = Result("update_customer", [id |-> id, data |-> data], "ok")
           ELSE /\ UNCHANGED <<customers, customers_file, matches>>
                /\ last' = Result("update_customer", [id |-> id, data |-> data], "not_found")
        /\ hist' = IdleHist
        /\ UNCHANGED <<restricted_parties, restricted_parties_file, matches_file, issued>>

UpdateRestrictedParty(id, data) ==
    LET idx == IndexOfId(restricted_parties, id)
    IN  /\ Served
        /\ IF idx # 0
           THEN LET party == UpdatedRecord(restricted_parties[idx], data, Timestamp)
                IN  /\ restricted_parties' = [restricted_parties EXCEPT ![idx] = party]
                    /\ restricted_parties_file' = restricted_parties'
                    /\ matches' = [k \in 1..Len(matches) |->
                                     IF matches[k].pref = idx
                                     THEN [matches[k] EXCEPT !.rec = ("restricted_party" :> party) @@ @]
                                     ELSE matches[k]]
                    /\ last' = Result("update_restricted_party", [id |-> id, data |-> data], "ok")
           ELSE /\ UNCHANGED <<restricted_parties, restricted_parties_file, matches>>
                /\ last' = Result("update_restricted_party", [id |-> id, data |-> data], "not_found")
        /\ hist' = IdleHist
        /\ UNCHANGED <<customers, customers_file, matches_file, issued>>

RunScreening ==
    /\ Served
    /\ matches' = StoredMatches(matches, find_exact_matches \o find_similar_matches)
    /\ matches_file' = MatchRecs(matches')
    /\ last' = Result("run_screening", NoArgs, "ok")
    /\ hist' = [phase |-> "ran",
                exact |-> ExactCount(matches'),
                before |-> IF hist.phase = "ran_added" THEN Some(hist.exact) ELSE Absent,
                held |-> \E k \in 1..Len(matches) : Annotated(matches[k].rec)]
    /\ UNCHANGED <<customers, restricted_parties, customers_file,
                   restricted_parties_file, issued>>

UpdateHoldType(match_index, hold_type, dtype) ==
    /\ Served
    /\ IF InRange(match_index, Len(matches))
       THEN LET pos == PyPos(match_index, Len(matches))
                held == ("hold_type" :> hold_type) @@ matches[pos].rec
                rec == IF dtype # None THEN ("dtype" :> dtype) @@ held ELSE held
            IN  /\ matches' = [matches EXCEPT ![pos] = [@ EXCEPT !.rec = rec]]
                /\ matches_file' = MatchRecs(matches')
                /\ last' = Result("update_hold_type", [match_index |-> match_index, hold_type |-> hold_type, dtype |-> dtype], "ok")
       ELSE /\ UNCHANGED <<matches, matches_file>>
            /\ last' = Result("update_hold_type", [match_index |-> match_index, hold_type |-> hold_type, dtype |-> dtype], "fail")
    /\ hist' = IdleHist
    /\ UNCHANGED <<customers, restricted_parties, customers_file,
                   restricted_parties_file, issued>>

\* the JSON bodies of the PUT requests
Patches(names) ==
    {<<>>}
    \cup {[name |-> n] : n \in names}
    \cup {[comments |-> c] : c \in CommentInputs}
    \cup {[name |-> n, comments |-> c] : n \in names, c \in CommentInputs}

Next ==
    \/ Restart
    \/ \E n \in CustomerNameInputs : AddCustomer(n, Empty)
    \/ \E n \in PartyNameInputs : AddRestrictedParty(n, Empty)
    \/ \E id \in 1..MaxCustomers : DeleteCustomer(id)
    \/ \E id \in 1..MaxParties : DeleteRestrictedParty(id)
    \/ \E id \in 1..MaxCustomers, d \in Patches(CustomerNameInputs) : UpdateCustomer(id, d)
    \/ \E id \in 1..MaxParties, d \in Patches(PartyNameInputs) : UpdateRestrictedParty(id, d)
    \/ RunScreening
    \/ \E i \in (0 - 1)..Len(matches), h \in HoldTypeInputs, d \in DtypeInputs :
          UpdateHoldType(i, h, d)

Spec == Init /\ [][Next]_vars

\* ------------------------------------------------- imports and failed saves
\* rows of an uploaded table
MaxRows == 3

\* uploads served in one run
MaxUploads == 2

\* errors[:5] and errors[:3] in the messages of import_customers_from_excel
ErrorsShownNoneImported == 5
ErrorsShownSomeImported == 3

\* the Name cells of the uploaded tables: an empty cell (NaN) or a name
NameCells == {Absent, Some(nSpAB)}

RowLists == UNION {[1..n -> NameCells] : n \in 0..MaxRows}

\* valid: pd.read_excel can read the file; has_name: it has a Name column;
\* rows: the Name cell of every data row (all NaN without the column)
Tables ==
    {[valid |-> FALSE, has_name |-> FALSE, rows |-> <<>>]}
    \cup {[valid |-> TRUE, has_name |-> FALSE, rows |-> [k \in 1..n |-> Absent]] : n \in 0..MaxRows}
    \cup {[valid |-> TRUE, has_name |-> TRUE, rows |-> r] : r \in RowLists}

\* str(row.get('Name', '')).strip() if pd.notna(row.get('Name')) else ''
CellText(cell) == IF cell = Absent THEN Empty ELSE Strip(cell[1])

NamedRows(table) == {k \in 1..Len(table.rows) : CellText(table.rows[k]) # Empty}

\* The rows at which save_data raises, and what the failed save leaves in the
\* file: open() raised and the file is as before, or the file was opened,
\* hence emptied, and the write did not complete.
Faults(table) ==
    {[rows |-> {}, outcome |-> "none"]}
    \cup {[rows |-> f, outcome |-> o] :
            f \in (SUBSET NamedRows(table)) \ {{}}, o \in {"open_failed", "write_failed"}}

FailedSave(content, outcome) == IF outcome = "open_failed" THEN content ELSE Unparsable

Take(seq, n) == SubSeq(seq, 1, IF Len(seq) < n THEN Len(seq) ELSE n)

\* the row number taken one too small
RowErrorByIndex(k, reason) == [row |-> k, reason |-> reason]

\* f"Row {index + 2}: ...", the row at position k having the index k - 1
RowError(k, reason) == [row |-> (k - 1) + 2, reason |-> reason]

\* The loop of import_customers_from_excel from row k on (row k has the
\* index k - 1 and is reported as row index + 2); acc is the list, its file,
\* imported_count and errors so far.  add_customer appends before it saves,
\* so a save that raises leaves the customer in the list.
RECURSIVE ImportCustomerRows(_, _, _, _)
ImportCustomerRows(rows, k, faults, acc) ==
    IF k > Len(rows)
    THEN acc
    ELSE IF CellText(rows[k]) = Empty
    THEN ImportCustomerRows(rows, k + 1, faults,
             [acc EXCEPT !.errors = Append(@, RowError(k, "Name is empty"))])
    ELSE LET customer == NewCustomer(NextId(acc.list), CellText(rows[k]),
                                     Empty, Empty, Empty, Empty, Timestamp)
             list == Append(acc.list, customer)
         IN  IF k \in faults.rows
             THEN ImportCustomerRows(rows, k + 1, faults,
                      [acc EXCEPT !.list = list,
                                  !.file = FailedSave(@, faults.outcome),
                                  !.errors = Append(@, RowError(k, "exception"))])
             ELSE ImportCustomerRows(rows, k + 1, faults,
                      [acc EXCEPT !.list = list, !.file = list, !.count = @ + 1])

\* The loop of import_restricted_parties_from_excel: no per-row try, an
\* empty name is passed over, an exception leaves the loop.
RECURSIVE ImportPartyRows(_, _, _, _)
ImportPartyRows(rows, k, faults, acc) ==
    IF k > Len(rows)
    THEN acc
    ELSE IF CellText(rows[k]) = Empty
    THEN ImportPartyRows(rows, k + 1, faults, acc)
    ELSE LET party == NewRestrictedParty(NextId(acc.list), CellText(rows[k]),
                                         Empty, Empty, Empty, Timestamp)
             list == Append(acc.list, party)
         IN  IF k \in faults.rows
             THEN [acc EXCEPT !.list = list,
                              !.file = FailedSave(@, faults.outcome),
                              !.raised = TRUE]
             ELSE ImportPartyRows(rows, k + 1, faults,
                      [acc EXCEPT !.list = list, !.file = list, !.count = @ + 1])

\* what an import returns: the count, the kind of message (None for no
\* message) and the row errors the message shows; errors is the local list
ImportResult(count, error, errors, shown) ==
    [count |-> count, error |-> error, errors |-> errors, shown |-> shown]

\* the return statements after the loop of import_customers_from_excel
CustomerImportResult(done) ==
    IF done.errors # <<>> /\ done.count = 0
    THEN ImportResult(0, "none_imported", done.errors,
                      Take(done.errors, ErrorsShownNoneImported))
    ELSE IF done.errors # <<>>
    THEN ImportResult(done.count, "some_errors", done.errors,
                      Take(done.errors, ErrorsShownSomeImported))
    ELSE ImportResult(done.count, None, done.errors, <<>>)

NewIds(before, after) == {after[i]["id"] : i \in (Len(before) + 1)..Len(after)}

ImportCustomers(table, faults) ==
    /\ Served
    /\ ops < MaxUploads
    /\ Len(customers) + Cardinality(NamedRows(table)) <= MaxCustomers
    /\ LET start == [list |-> customers, file |-> customers_file,
                     count |-> 0, errors |-> <<>>]
           done == IF table.valid /\ table.has_name
                   THEN ImportCustomerRows(table.rows, 1, faults, start)
                   ELSE start
           ret == IF ~table.valid
                  THEN ImportResult(0, "read_error", <<>>, <<>>)
                  ELSE IF ~table.has_name
                  THEN ImportResult(0, "missing_columns", <<>>, <<>>)
                  ELSE CustomerImportResult(done)
       IN  /\ customers' = done.list
           /\ customers_file' = done.file
           /\ issued' = [issued EXCEPT !.customers = @ \cup NewIds(customers, done.list)]
           /\ last' = Result("import_customers", [table |-> table, faults |-> faults], ret)
    /\ hist' = IdleHist
    /\ UNCHANGED <<restricted_parties, matches, restricted_parties_file, matches_file>>

ImportRestrictedParties(table, faults) ==
    /\ Served
    /\ ops < MaxUploads
    /\ Len(restricted_parties) + Cardinality(NamedRows(table)) <= MaxParties
    /\ LET start == [list |-> restricted_parties, file |-> restricted_parties_file,
                     count |-> 0, raised |-> FALSE]
           done == IF table.valid
                   THEN ImportPartyRows(table.rows, 1, faults, start)
                   ELSE start
           ret == IF ~table.valid \/ done.raised
                  THEN ImportResult(0, "exception", <<>>, <<>>)
                  ELSE ImportResult(done.count, None, <<>>, <<>>)
       IN  /\ restricted_parties' = done.list
           /\ restricted_parties_file' = done.file
           /\ issued' = [issued EXCEPT
                            !.restricted_parties = @ \cup NewIds(restricted_parties, done.list)]
           /\ last' = Result("import_restricted_parties",
                             [table |-> table, faults |-> faults], ret)
    /\ hist' = IdleHist
    /\ UNCHANGED <<customers, matches, customers_file, matches_file>>

\* run_screening when save_data raises: self.matches was assigned before
RunScreeningSaveFails(outcome) ==
    /\ Served
    /\ matches' = StoredMatches(matches, find_exact_matches \o find_similar_matches)
    /\ matches_file' = FailedSave(matches_file, outcome)
    /\ last' = Result("run_screening", NoArgs, "error")
    /\ hist' = IdleHist
    /\ UNCHANGED <<customers, restricted_parties, customers_file,
                   restricted_parties_file, issued>>

NextIO ==
    \/ Restart
    \/ RunScreening
    \/ \E o \in {"open_failed", "write_failed"} : RunScreeningSaveFails(o)
    \/ \E t \in Tables : \E f \in Faults(t) : ImportCustomers(t, f)
    \/ \E t \in Tables : \E f \in Faults(t) : ImportRestrictedParties(t, f)

SpecIO == Init /\ [][NextIO]_vars

\* the customers upload on its own
NextImport ==
    \/ Restart
    \/ \E id \in 1..MaxCustomers : DeleteCustomer(id)
    \/ \E t \in Tables : \E f \in Faults(t) : ImportCustomers(t, f)

SpecImport == Init /\ [][NextImport]_vars

\* ------------------------------------------------------ concurrent requests
RECURSIVE SumOf(_, _)
SumOf(f, S) == IF S = {} THEN 0
               ELSE LET x == CHOOSE y \in S : TRUE IN f[x] + SumOf(f, S \ {x})

Digits(n) == IF n < 10 THEN 1 ELSE 2

\* the bytes json.dump(..., indent=2) writes for one customer dict built by
\* add_customer, the timestamp being the 26 characters of isoformat()
CustomerBytes(c) ==
    157 + Digits(c["id"]) + Len(c["name"]) + Len(c["address"]) + Len(c["phone"])
        + Len(c["email"]) + Len(c["comments"])

\* the bytes json.dump(..., indent=2) writes for a list of customers
JsonSize(list) ==
    IF list = <<>> THEN 2
    ELSE 4 + SumOf([i \in 1..Len(list) |-> CustomerBytes(list[i])], 1..Len(list))
           + 2 * (Len(list) - 1)

FileSize(content) == IF IsGarbage(content) THEN content[1].size ELSE JsonSize(content)

\* a close that leaves the longer of the two contents
OverlayKeepingLonger(buf, content) ==
    IF JsonSize(buf) >= FileSize(content) THEN buf ELSE content

\* The close of a file opened with 'w': the buffered bytes go to offset 0 of
\* whatever the file holds by then, and nothing is cut off behind them.
Overlay(buf, content) ==
    IF JsonSize(buf) >= FileSize(content) THEN buf ELSE Garbage(FileSize(content))

At(w, pc) == requests[w].pc = pc

Goto(w, pc) == [requests EXCEPT ![w].pc = pc]

\* the POST and DELETE requests on the customers a thread starts to serve
CallAddCustomer(w, name) ==
    /\ At(w, "idle")
    /\ Len(customers) + Cardinality({v \in Writers : requests[v].op = "add_customer"
                                        /\ requests[v].pc \in {"called", "built"}})
          < MaxCustomers
    /\ requests' = [requests EXCEPT ![w] = [Idle EXCEPT !.pc = "called",
                                                        !.op = "add_customer",
                                                        !.name = name]]
    /\ UNCHANGED <<customers, restricted_parties, matches, customers_file,
                   restricted_parties_file, matches_file, last, issued, hist, ops>>

CallDeleteCustomer(w, id) ==
    /\ At(w, "idle")
    /\ requests' = [requests EXCEPT ![w] = [Idle EXCEPT !.pc = "called",
                                                        !.op = "delete_customer",
                                                        !.id = id]]
    /\ UNCHANGED <<customers, restricted_parties, matches, customers_file,
                   restricted_parties_file, matches_file, last, issued, hist, ops>>

\* add_customer: the dict is built from the length read now
AddBuild(w) ==
    /\ At(w, "called")
    /\ requests[w].op = "add_customer"
    /\ requests' = [requests EXCEPT
                       ![w].pc = "built",
                       ![w].local = Some(NewCustomer(NextId(customers), requests[w].name,
                                                     Empty, Empty, Empty, Empty, Timestamp))]
    /\ UNCHANGED <<customers, restricted_parties, matches, customers_file,
                   restricted_parties_file, matches_file, last, issued, hist, ops>>

\* add_customer: self.customers.append(customer)
AddAppend(w) ==
    /\ At(w, "built")
    /\ customers' = Append(customers, requests[w].local[1])
    /\ issued' = [issued EXCEPT !.customers = @ \cup {requests[w].local[1]["id"]}]
    /\ requests' = Goto(w, "saving")
    /\ UNCHANGED <<restricted_parties, matches, customers_file,
                   restricted_parties_file, matches_file, last, hist, ops>>

\* DELETE: the index of the customer is looked up
DeleteFind(w) ==
    /\ At(w, "called")
    /\ requests[w].op = "delete_customer"
    /\ LET idx == IndexOfId(customers, requests[w].id)
       IN  IF idx # 0
           THEN /\ requests' = [requests EXCEPT ![w].pc = "found", ![w].idx = idx]
                /\ UNCHANGED last
           ELSE /\ requests' = Goto(w, "done")
                /\ last' = Result("delete_customer",
                                  [id |-> requests[w].id, writer |-> w], "not_found")
    /\ UNCHANGED <<customers, restricted_parties, matches, customers_file,
                   restricted_parties_file, matches_file, issued, hist, ops>>

\* DELETE: tool.customers.pop(customer_index), an IndexError when the list
\* has become shorter than the index found
DeletePop(w) ==
    /\ At(w, "found")
    /\ IF requests[w].idx <= Len(customers)
       THEN /\ customers' = Pop(customers, requests[w].idx)
            /\ matches' = MatchesAfterPop(matches, "cref", requests[w].idx)
            /\ requests' = Goto(w, "saving")
            /\ UNCHANGED last
       ELSE /\ requests' = Goto(w, "done")
            /\ last' = Result("delete_customer",
                              [id |-> requests[w].id, writer |-> w], "error")
            /\ UNCHANGED <<customers, matches>>
    /\ UNCHANGED <<restricted_parties, customers_file, restricted_parties_file,
                   matches_file, issued, hist, ops>>

\* save_data: open(filename, 'w') empties the file
SaveOpen(w) ==
    /\ At(w, "saving")
    /\ customers_file' = Unparsable
    /\ requests' = Goto(w, "opened")
    /\ UNCHANGED <<customers, restricted_parties, matches, restricted_parties_file,
                   matches_file, last, issued, hist, ops>>

\* save_data: json.dump writes the list as it is now into the buffer of f
SaveDump(w) ==
    /\ At(w, "opened")
    /\ requests' = [requests EXCEPT ![w].pc = "dumped", ![w].buf = customers]
    /\ UNCHANGED <<customers, restricted_parties, matches, customers_file,
                   restricted_parties_file, matches_file, last, issued, hist, ops>>

\* save_data: leaving the with block flushes the buffer and closes f
SaveClose(w) ==
    /\ At(w, "dumped")
    /\ customers_file' = Overlay(requests[w].buf, customers_file)
    /\ requests' = Goto(w, "done")
    /\ last' = Result(requests[w].op,
                      [id |-> requests[w].id, name |-> requests[w].name, writer |-> w],
                      "ok")
    /\ UNCHANGED <<customers, restricted_parties, matches, restricted_parties_file,
                   matches_file, issued, hist, ops>>

NextConc ==
    \/ \E name \in CustomerNameInputs : AddCustomer(name, Empty)
    \/ \E w \in Writers : \E name \in CustomerNameInputs : CallAddCustomer(w, name)
    \/ \E w \in Writers : \E id \in 1..MaxCustomers : CallDeleteCustomer(w, id)
    \/ \E w \in Writers : AddBuild(w)
    \/ \E w \in Writers : AddAppend(w)
    \/ \E w \in Writers : DeleteFind(w)
    \/ \E w \in Writers : DeletePop(w)
    \/ \E w \in Writers : SaveOpen(w)
    \/ \E w \in Writers : SaveDump(w)
    \/ \E w \in Writers : SaveClose(w)

SpecConc == Init /\ [][NextConc]_vars

\* ------------------------------------------------------------- properties
AfterScreening == last.op = "run_screening"

\* the match list holds an exact record for the customer at i and the party at j
ExactRecordFor(i, j) ==
    \E k \in 1..Len(matches) :
        /\ matches[k].cref = i /\ matches[k].pref = j
        /\ matches[k].rec["customer"] = customers[i]
        /\ matches[k].rec["restricted_party"] = restricted_parties[j]
        /\ matches[k].rec["match_type"] = "exact"
        /\ matches[k].rec["similarity"] = [num |-> 1, den |-> 1]
        /\ "hold_type" \in DOMAIN matches[k].rec
        /\ matches[k].rec["hold_type"] = None

\* the match list holds a similar record for the customer at i and the party at j
SimilarRecordFor(i, j) ==
    \E k \in 1..Len(matches) :
        /\ matches[k].cref = i /\ matches[k].pref = j
        /\ matches[k].rec["customer"] = customers[i]
        /\ matches[k].rec["restricted_party"] = restricted_parties[j]
        /\ matches[k].rec["match_type"] = "similar"
        /\ matches[k].rec["similarity"] =
               calculate_similarity(customers[i]["name"], restricted_parties[j]["name"])

\* C1: right after run_screening, the list holds an exact record (similarity
\* 1.0, hold_type null) for a customer and a party of the store if and only
\* if their names are equal after lowercasing and trimming.
C1_ExactIffTrimmedLowerEqual ==
    AfterScreening =>
        \A i \in 1..Len(customers), j \in 1..Len(restricted_parties) :
            ExactRecordFor(i, j)
                <=> Strip(Lower(customers[i]["name"]))
                      = Strip(Lower(restricted_parties[j]["name"]))

\* customer "ab" and party " AB" are classified exact
C1_Witness ==
    /\ AfterScreening
    /\ \E i \in 1..Len(customers), j \in 1..Len(restricted_parties) :
          /\ customers[i]["name"] = nAB
          /\ restricted_parties[j]["name"] = nSpAB
          /\ ExactRecordFor(i, j)

\* C2: in the list produced by run_screening no (customer, party) pair has
\* both an exact record and a similar record.
C2_NoPairExactAndSimilar ==
    AfterScreening =>
        \A i \in 1..Len(customers), j \in 1..Len(restricted_parties) :
            ~(ExactRecordFor(i, j) /\ SimilarRecordFor(i, j))

\* C3: an update of a customer or of a restricted party leaves the content of
\* the in-memory match list as it was.
C3_UpdateLeavesMatchesUnchanged ==
    [][last'.op \in {"update_customer", "update_restricted_party"}
          => MatchRecs(matches') = MatchRecs(matches)]_vars

\* C4: right after run_screening, the list holds a similar record for a
\* customer and a party of the store if and only if their score s satisfies
\* 0.3 <= s < 1.0.
C4_SimilarIffInRange ==
    AfterScreening =>
        \A i \in 1..Len(customers), j \in 1..Len(restricted_parties) :
            LET s == calculate_similarity(customers[i]["name"], restricted_parties[j]["name"])
            IN  SimilarRecordFor(i, j) <=> (10 * s.num >= 3 * s.den /\ s.num < s.den)

\* one pair scoring exactly 0.3 is in the list, one scoring below 0.3 and one
\* scoring 1.0 are not
C4_Witness ==
    /\ AfterScreening
    /\ \E i \in 1..Len(customers), j \in 1..Len(restricted_parties) :
          LET s == calculate_similarity(customers[i]["name"], restricted_parties[j]["name"])
          IN  10 * s.num = 3 * s.den /\ SimilarRecordFor(i, j)
    /\ \E i \in 1..Len(customers), j \in 1..Len(restricted_parties) :
          LET s == calculate_similarity(customers[i]["name"], restricted_parties[j]["name"])
          IN  10 * s.num < 3 * s.den /\ ~SimilarRecordFor(i, j)
    /\ \E i \in 1..Len(customers), j \in 1..Len(restricted_parties) :
          LET s == calculate_similarity(customers[i]["name"], restricted_parties[j]["name"])
          IN  s.num = s.den /\ ~SimilarRecordFor(i, j)

\* C5: right after run_screening no record of the stored list has a non-null
\* hold_type, and none has a dtype.
C5_NoHoldAfterScreening ==
    AfterScreening =>
        \A k \in 1..Len(matches) :
            /\ "hold_type" \in DOMAIN matches[k].rec => matches[k].rec["hold_type"] = None
            /\ "dtype" \notin DOMAIN matches[k].rec

\* the replaced list carried a hold type and the new list has records
C5_Witness == AfterScreening /\ hist.held /\ Len(matches) > 0

\* the customers whose name equals the name of party p after lowercasing and
\* trimming
CustomersNamedLike(p) ==
    {i \in 1..Len(customers) : Strip(Lower(customers[i]["name"])) = Strip(Lower(p["name"]))}

\* the latest operation was the second run_screening of a sequence
\* run_screening, add_restricted_party, run_screening
RanAddedRan == hist.phase = "ran" /\ hist.before # Absent

\* the party appended by the add_restricted_party of that sequence
AddedParty == restricted_parties[Len(restricted_parties)]

\* C6 as stated: when the added party's name matches an existing customer,
\* the second list has exactly one more exact record than the first.
C6_ExactlyOneMoreExactRecord ==
    (RanAddedRan /\ CustomersNamedLike(AddedParty) # {})
        => ExactCount(matches) = hist.before[1] + 1

\* C6 amended: the second list has one more exact record for every existing
\* customer whose name equals the added party's name after lowercasing and
\* trimming.
C6_OneMoreExactRecordPerNamesake ==
    RanAddedRan
        => ExactCount(matches) = hist.before[1] + Cardinality(CustomersNamedLike(AddedParty))

C6_Witness == RanAddedRan /\ CustomersNamedLike(AddedParty) # {}

\* C7: the id given by add_customer / add_restricted_party is greater than
\* every id given before in that collection.
C7_IdsStrictlyIncrease ==
    [][/\ last'.op = "add_customer"
            => \A old \in issued.customers : customers'[Len(customers')]["id"] > old
       /\ last'.op = "add_restricted_party"
            => \A old \in issued.restricted_parties :
                   restricted_parties'[Len(restricted_parties')]["id"] > old]_vars

HasId(list, id) == \E i \in 1..Len(list) : list[i]["id"] = id

\* C8: a delete by an id that no element of the collection has returns
\* not-found and leaves the list and its file as they were.
C8_DeleteAbsentIdChangesNothing ==
    [][/\ (last'.op = "delete_customer" /\ ~HasId(customers, last'.args.id))
            => /\ last'.ret = "not_found"
               /\ customers' = customers
               /\ customers_file' = customers_file
       /\ (last'.op = "delete_restricted_party" /\ ~HasId(restricted_parties, last'.args.id))
            => /\ last'.ret = "not_found"
               /\ restricted_parties' = restricted_parties
               /\ restricted_parties_file' = restricted_parties_file]_vars

\* a delete of an absent id was answered not-found on a list that has elements
C8_Witness ==
    /\ last.op = "delete_customer"
    /\ last.ret = "not_found"
    /\ Len(customers) > 0

\* C9: update_hold_type succeeds exactly for 0 <= index < len(matches); out
\* of range it fails and leaves list and file alone; in range it changes only
\* hold_type (and dtype) of the record at that index.
C9_HoldTypeUpdate ==
    [][last'.op = "update_hold_type"
          => LET idx == last'.args.match_index
                 n == Len(matches)
                 valid == 0 <= idx /\ idx < n
             IN  /\ (last'.ret = "ok") <=> valid
                 /\ ~valid => /\ last'.ret = "fail"
                              /\ matches' = matches
                              /\ matches_file' = matches_file
                 /\ valid =>
                      /\ Len(matches') = n
                      /\ \A k \in 1..n : k # idx + 1 => matches'[k] = matches[k]
                      /\ matches'[idx + 1].cref = matches[idx + 1].cref
                      /\ matches'[idx + 1].pref = matches[idx + 1].pref
                      /\ matches'[idx + 1].rec["hold_type"] = last'.args.hold_type
                      /\ DOMAIN matches'[idx + 1].rec \subseteq
                             DOMAIN matches[idx + 1].rec \cup {"hold_type", "dtype"}
                      /\ \A key \in DOMAIN matches[idx + 1].rec \ {"hold_type", "dtype"} :
                             matches'[idx + 1].rec[key] = matches[idx + 1].rec[key]]_vars

\* a negative index was refused on a list that has records
C9_Witness ==
    /\ last.op = "update_hold_type"
    /\ last.ret = "fail"
    /\ last.args.match_index < 0
    /\ Len(matches) > 0

\* what update_* has to do to the list, given the id, the patch and the result
MergedInto(list, list2, id, data, ret) ==
    IF ~HasId(list, id)
    THEN /\ ret = "not_found"
         /\ UNCHANGED <<customers, restricted_parties, matches, customers_file,
                        restricted_parties_file, matches_file>>
    ELSE LET i == SetMin({k \in 1..Len(list) : list[k]["id"] = id})
         IN  /\ ret = "ok"
             /\ Len(list2) = Len(list)
             /\ \A k \in 1..Len(list) : k # i => list2[k] = list[k]
             /\ DOMAIN list2[i] = DOMAIN list[i] \cup DOMAIN data \cup {"modified_date"}
             /\ \A key \in DOMAIN data : list2[i][key] = data[key]
             /\ list2[i]["modified_date"] = Timestamp
             /\ \A key \in DOMAIN list[i] \ (DOMAIN data \cup {"modified_date"}) :
                    list2[i][key] = list[i][key]

\* C10: update_customer / update_restricted_party on a present id overwrites
\* the patch's fields and modified_date of that one record and nothing else
\* in the collection; on an absent id it returns not-found and changes nothing.
C10_UpdateMergesPatch ==
    [][/\ last'.op = "update_customer"
            => MergedInto(customers, customers', last'.args.id, last'.args.data, last'.ret)
       /\ last'.op = "update_restricted_party"
            => MergedInto(restricted_parties, restricted_parties',
                          last'.args.id, last'.args.data, last'.ret)]_vars

\* a patch of the comments alone was merged into one of two customers
C10_Witness ==
    /\ last.op = "update_customer"
    /\ last.ret = "ok"
    /\ DOMAIN last.args.data = {"comments"}
    /\ Len(customers) = 2

\* C11: when a mutating operation has returned successfully, the file of
\* the collection it works on holds that collection as it is in memory.
C11_PersistedOnReturn ==
    last.ret = "ok" =>
        /\ last.op \in {"add_customer", "update_customer", "delete_customer"}
              => customers_file = customers
        /\ last.op \in {"add_restricted_party", "update_restricted_party",
                        "delete_restricted_party"}
              => restricted_parties_file = restricted_parties
        /\ last.op \in {"run_screening", "update_hold_type"}
              => matches_file = [k \in 1..Len(matches) |-> matches[k].rec]

\* a hold type was set and is in the file
C11_Witness ==
    /\ last.op = "update_hold_type"
    /\ last.ret = "ok"
    /\ \E k \in 1..Len(matches_file) :
          /\ "hold_type" \in DOMAIN matches_file[k]
          /\ matches_file[k]["hold_type"] = last.args.hold_type

\* C15: the list produced by run_screening has its exact records before its
\* similar records, and the records of one pass are in the order of the
\* customer's position first and of the party's position second.
C15_ExactThenSimilarCustomerMajor ==
    AfterScreening =>
        \A k1, k2 \in 1..Len(matches) :
            k1 < k2 =>
                /\ ~(/\ matches[k1].rec["match_type"] = "similar"
                     /\ matches[k2].rec["match_type"] = "exact")
                /\ matches[k1].rec["match_type"] = matches[k2].rec["match_type"]
                      => \/ matches[k1].cref < matches[k2].cref
                         \/ /\ matches[k1].cref = matches[k2].cref
                            /\ matches[k1].pref < matches[k2].pref

\* two records of one pass, the earlier one for the earlier customer and the
\* later party
C15_Witness ==
    /\ AfterScreening
    /\ \E k1, k2 \in 1..Len(matches) :
          /\ k1 < k2
          /\ matches[k1].rec["match_type"] = matches[k2].rec["match_type"]
          /\ matches[k1].cref < matches[k2].cref
          /\ matches[k1].pref > matches[k2].pref

HasDuplicateIds(list) ==
    \E i, j \in 1..Len(list) : i # j /\ list[i]["id"] = list[j]["id"]

\* the list holds the ids 1..Len+1 in order, but for the id d
NumberedButFor(list, d) ==
    /\ d <= Len(list)
    /\ \A i \in 1..Len(list) : list[i]["id"] = IF i < d THEN i ELSE i + 1

\* C17: ids are the number of customers plus one, so an add after a delete
\* gives a second customer the same id: when a customer other than the last
\* one was deleted from a list numbered 1..n, the next add_customer leaves two
\* customers with one id.
C17_AddAfterDeleteRepeatsId ==
    [][(/\ last.op = "delete_customer"
        /\ last.ret = "ok"
        /\ NumberedButFor(customers, last.args.id)
        /\ last'.op = "add_customer")
          => /\ HasDuplicateIds(customers')
             /\ customers'[Len(customers')]["id"] = customers[Len(customers)]["id"]]_vars

\* two customers of the list have the same id
C17_Witness == last.op = "add_customer" /\ HasDuplicateIds(customers)

\* C19: a successful delete of a customer or of a restricted party leaves the
\* match list, in memory and in its file, as it was.
C19_DeleteLeavesMatches ==
    [][(last'.op \in {"delete_customer", "delete_restricted_party"} /\ last'.ret = "ok")
          => /\ [k \in 1..Len(matches') |-> matches'[k].rec]
                    = [k \in 1..Len(matches) |-> matches[k].rec]
             /\ matches_file' = matches_file]_vars

\* a record whose customer is no longer in the list was given a hold type
C19_Witness ==
    /\ last.op = "update_hold_type"
    /\ last.ret = "ok"
    /\ LET m == matches[last.args.match_index + 1]
       IN  /\ m.rec["hold_type"] = last.args.hold_type
           /\ m.cref = 0
           /\ \A i \in 1..Len(customers) : customers[i] # m.rec["customer"]

\* ------------------------------------------------------------------ uploads
IsImport(r) == r.op \in {"import_customers", "import_restricted_parties"}

EmptyRows(table) == (1..Len(table.rows)) \ NamedRows(table)

\* C12: in both import adapters a readable table without a Name column is a
\* hard failure: zero rows imported, an error message, and no entity added.
C12_MissingNameColumnFails ==
    [][(/\ IsImport(last')
        /\ last'.args.table.valid
        /\ ~last'.args.table.has_name)
          => /\ last'.ret.count = 0
             /\ last'.ret.error # None
             /\ customers' = customers
             /\ restricted_parties' = restricted_parties]_vars

\* C13: the customers import, no row failing, adds one customer per row with
\* a non-empty name, in row order at the end of the list, returns the number
\* of those rows, and records exactly one error per empty-name row, naming
\* the row as index + 2.
C13_ImportCountsNamedRows ==
    [][(/\ last'.op = "import_customers"
        /\ last'.args.table.valid
        /\ last'.args.table.has_name
        /\ last'.args.faults.rows = {})
          => LET table == last'.args.table
                 named == NamedRows(table)
                 empty == EmptyRows(table)
                 errors == last'.ret.errors
             IN  /\ last'.ret.count = Cardinality(named)
                 /\ Len(customers') = Len(customers) + Cardinality(named)
                 /\ \A i \in 1..Len(customers) : customers'[i] = customers[i]
                 /\ \A i \in (Len(customers) + 1)..Len(customers') :
                       \E k \in named :
                          /\ customers'[i]["name"] = CellText(table.rows[k])
                          /\ Cardinality({j \in named : j <= k}) = i - Len(customers)
                 /\ named # {} => customers_file' = customers'
                 /\ Len(errors) = Cardinality(empty)
                 /\ \A k \in empty :
                       Cardinality({e \in 1..Len(errors) :
                                      errors[e] = [row |-> (k - 1) + 2,
                                                   reason |-> "Name is empty"]}) = 1
                 /\ (last'.ret.error = None) <=> (empty = {})]_vars

\* three rows, one of them with an empty name: two imported, one error
C13_Witness ==
    /\ last.op = "import_customers"
    /\ last.args.faults.rows = {}
    /\ Len(last.args.table.rows) = 3
    /\ Cardinality(EmptyRows(last.args.table)) = 1
    /\ last.ret.count = 2
    /\ Len(last.ret.errors) = 1
    /\ Len(customers) = 2

\* C14: in both import adapters a row that fails does not end the batch:
\* every named row is still processed, each failure and each empty name is
\* recorded as one row error, and the count is that of the rows that passed.
C14_RowFailureDoesNotAbort ==
    [][(/\ IsImport(last')
        /\ last'.args.table.valid
        /\ last'.args.table.has_name)
          => LET table == last'.args.table
                 failed == last'.args.faults.rows
                 before == IF last'.op = "import_customers"
                           THEN customers ELSE restricted_parties
                 after == IF last'.op = "import_customers"
                          THEN customers' ELSE restricted_parties'
             IN  /\ Len(after) = Len(before) + Cardinality(NamedRows(table))
                 /\ last'.ret.count = Cardinality(NamedRows(table) \ failed)
                 /\ Len(last'.ret.errors)
                       = Cardinality(failed) + Cardinality(EmptyRows(table))]_vars

\* C16: a run_screening that fails, while persisting included, leaves the
\* match list in memory and the matches file as they were.
C16_FailedScreeningChangesNothing ==
    [][(/\ last'.op = "run_screening"
        /\ last'.ret = "error")
          => /\ [k \in 1..Len(matches') |-> matches'[k].rec]
                   = [k \in 1..Len(matches) |-> matches[k].rec]
             /\ matches_file' = matches_file]_vars

\* ------------------------------------------------------ concurrent requests
\* C18: the last writer wins.  Whatever another request did to the customers
\* since a request took its view of the list, the close of that request
\* leaves in the file its own view, or bytes that do not parse; the file
\* then misses every update made after the view was taken.
C18_LastCloseWins ==
    [][\A w \in Writers :
          (requests[w].pc = "dumped" /\ requests'[w].pc = "done")
             => /\ customers_file' = requests[w].buf \/ IsGarbage(customers_file')
                /\ IsGarbage(customers_file')
                      => FileSize(customers_file') > JsonSize(requests[w].buf)
                /\ (FileSize(customers_file) <= JsonSize(requests[w].buf))
                      => customers_file' = requests[w].buf]_vars

\* both requests are over, the file parses and holds the view of the request
\* that closed last, and it misses an update of the other request that the
\* list in memory has
C18_Witness ==
    /\ \A w \in Writers : requests[w].pc = "done"
    /\ "writer" \in DOMAIN last.args
    /\ last.ret = "ok"
    /\ ~IsGarbage(customers_file)
    /\ customers_file = requests[last.args.writer].buf
    /\ customers_file # customers
    /\ \E v \in Writers \ {last.args.writer} :
          /\ requests[v].buf = customers
          /\ requests[v].buf # customers_file

====
